---- MODULE Spec2Model ----
(***************************************************************************)
(* Model of the MLI dashboard application (class MLIApp).                  *)
(*                                                                         *)
(* The state machine follows the enhanced page script                      *)
(* (src/unnamed/part_002).  Where the earlier page script                  *)
(* (src/website/app.js) computes the same thing differently, its variant   *)
(* is an operator with the suffix _app.                                    *)
(*                                                                         *)
(* Numbers.  The code works on IEEE doubles read from JSON.  The model     *)
(* uses integers: mli in hundredths (0.94 is 94), income, col and surplus  *)
(* in whole currency units.  A comparison against  min + (range/B)*k  is   *)
(* evaluated exactly, multiplied through by B.  Math.min() of no values    *)
(* is +Infinity and Math.max() is -Infinity, so range and bin are          *)
(* -Infinity and every threshold is NaN: each comparison is then false.    *)
(*                                                                         *)
(* Indexes are 0-based as in the source; At0 reads a sequence that way.    *)
(***************************************************************************)
EXTENDS Integers, Sequences, FiniteSets, TLC

VARIABLES
    phase,          \* position of init(): constructed, dataLoaded, ready, error
    data,           \* this.data
    availableYears, \* this.availableYears
    currentYear,    \* this.currentYear
    currentMetric,  \* this.currentMetric
    currentSort,    \* this.currentSort
    sortDirection,  \* this.sortDirection
    selectedState,  \* this.selectedState
    map,            \* this.map: "null", or "paths" once the geometry is joined
    mapPending,     \* the d3.json geometry request of createMap is in flight
    mapFill,        \* fill attribute of every path of the map
    listeners,      \* setupEventListeners has run
    errorShown,     \* showError has replaced the content of <main>
    statsBanner,    \* counts written by updateStatsBanner
    rankingsBody,   \* rows of #rankingsBody, in document order
    activeTab,      \* the .tab-btn carrying class 'active'
    insights,       \* lists written by updateInsights
    legend,         \* what updateLegend last described
    detailPanel,    \* #detailPanel: display, state shown, rank shown
    selectedFeature,\* the map path carrying class 'selected'
    marketData,     \* this.marketData: "null" or "loaded"
    searchBox,      \* value of the #searchBox input, a sequence of characters
    rowDisplay,     \* style.display of every row of #rankingsBody
    divergence,     \* the market divergence page (its own document)
    hideTimers      \* pending 300 ms timers of closeDetailPanel

vars == <<phase, data, availableYears, currentYear, currentMetric, currentSort,
          sortDirection, selectedState, map, mapPending, mapFill, listeners,
          errorShown, statsBanner, rankingsBody, activeTab, insights, legend,
          detailPanel, selectedFeature, marketData, searchBox, rowDisplay,
          divergence, hideTimers>>

(***************************************************************************)
(* Bounds of the model.                                                    *)
(***************************************************************************)
NumStates == 3      \* states in a dataset
MaxLevel == 12      \* value levels 0..MaxLevel of the classification datasets
LongYears == 6      \* years of a long series (5-year lookback exists)
ShortYears == 2     \* years of a short series (no 5-year lookback)
WideStates == 11    \* states of the wide dataset (more than a top-10 view)
MaxTimers == 2      \* hide timers of the detail panel pending at once

(***************************************************************************)
(* Generic helpers.                                                        *)
(***************************************************************************)
At0(seq, i) == seq[i + 1]

Range(seq) == {seq[i] : i \in 1..Len(seq)}

\* Array.prototype.findIndex on an array of years: 0-based, -1 when absent
findIndex(seq, y) ==
    IF \E i \in 1..Len(seq) : seq[i] = y
    THEN (CHOOSE i \in 1..Len(seq) : seq[i] = y /\ \A j \in 1..(i-1) : seq[j] # y) - 1
    ELSE -1

\* Array.prototype.slice(from, to) with 0-based from (inclusive), to (exclusive)
slice(seq, from, to) ==
    LET f == IF from < 0 THEN (IF Len(seq) + from < 0 THEN 0 ELSE Len(seq) + from)
             ELSE (IF from > Len(seq) THEN Len(seq) ELSE from)
        t == IF to > Len(seq) THEN Len(seq) ELSE to
    IN  IF t <= f THEN <<>> ELSE [i \in 1..(t - f) |-> seq[f + i]]

\* Array.prototype.reverse
reverse(seq) == [i \in 1..Len(seq) |-> seq[Len(seq) + 1 - i]]

MathMin(S) == CHOOSE x \in S : \A y \in S : x <= y
MathMax(S) == CHOOSE x \in S : \A y \in S : x >= y

(***************************************************************************)
(* Text.  A string the code searches in is a sequence of one-character     *)
(* strings.                                                                *)
(***************************************************************************)
UpperCase ==
    <<"A", "B", "C", "D", "E", "F", "G", "H", "I", "J", "K", "L", "M",
      "N", "O", "P", "Q", "R", "S", "T", "U", "V", "W", "X", "Y", "Z">>

LowerCase ==
    <<"a", "b", "c", "d", "e", "f", "g", "h", "i", "j", "k", "l", "m",
      "n", "o", "p", "q", "r", "s", "t", "u", "v", "w", "x", "y", "z">>

\* String.prototype.toLowerCase
toLowerCase(text) ==
    [i \in 1..Len(text) |->
        IF \E k \in 1..Len(UpperCase) : UpperCase[k] = text[i]
        THEN LowerCase[CHOOSE k \in 1..Len(UpperCase) : UpperCase[k] = text[i]]
        ELSE text[i]]

\* String.prototype.includes
includes(text, term) ==
    \E off \in 0..(Len(text) - Len(term)) :
        \A i \in 1..Len(term) : text[off + i] = term[i]

(***************************************************************************)
(* The dataset (mli_data.json).  A state's timeseries is a function whose  *)
(* domain is the set of years it has an entry for; looking up any other    *)
(* year gives undefined.  data.order is the key order of data.states.      *)
(***************************************************************************)
StateNames ==
    <<"Alabama", "Alaska", "Arizona", "Arkansas", "California", "Colorado",
      "Connecticut", "Delaware", "Florida", "Georgia", "Hawaii", "Idaho">>

\* the characters of a state name, as the text of its .state-cell
Spelling ==
    "Alabama" :> <<"A", "l", "a", "b", "a", "m", "a">> @@
    "Alaska" :> <<"A", "l", "a", "s", "k", "a">> @@
    "Arizona" :> <<"A", "r", "i", "z", "o", "n", "a">> @@
    "Arkansas" :> <<"A", "r", "k", "a", "n", "s", "a", "s">> @@
    "California" :> <<"C", "a", "l", "i", "f", "o", "r", "n", "i", "a">> @@
    "Colorado" :> <<"C", "o", "l", "o", "r", "a", "d", "o">> @@
    "Connecticut" :> <<"C", "o", "n", "n", "e", "c", "t", "i", "c", "u", "t">> @@
    "Delaware" :> <<"D", "e", "l", "a", "w", "a", "r", "e">> @@
    "Florida" :> <<"F", "l", "o", "r", "i", "d", "a">> @@
    "Georgia" :> <<"G", "e", "o", "r", "g", "i", "a">> @@
    "Hawaii" :> <<"H", "a", "w", "a", "i", "i">> @@
    "Idaho" :> <<"I", "d", "a", "h", "o">>

\* a feature of the map geometry that has no entry in data.states
Territory == "Puerto Rico"

NullData == [isNull |-> TRUE, years |-> <<>>, order |-> <<>>, ts |-> <<>>]

Keys(d) == Range(d.order)

HasYear(d, n, y) == n \in Keys(d) /\ y \in DOMAIN d.ts[n]

CompleteYear(d, y) == \A n \in Keys(d) : HasYear(d, n, y)

\* the year list of a dataset of n years, ending at 2023
YearsOf(n) == [i \in 1..n |-> 2023 - n + i]

(***************************************************************************)
(* Classification datasets: three years; every metric of a state in the    *)
(* last year follows from its level.  The first year holds the levels      *)
(* mirrored, and the middle year has entries only for the states whose     *)
(* level is even, so the set of values of a year varies with the year.     *)
(***************************************************************************)
MliTable == <<85, 89, 90, 94, 95, 99, 100, 105, 109, 110, 115, 119, 120>>

MliOfLevel(l) ==
    IF l + 1 <= Len(MliTable) THEN MliTable[l + 1]
    ELSE 120 + 5 * (l + 1 - Len(MliTable))

LevelMetrics(l) ==
    [mli |-> MliOfLevel(l), income |-> 40 + l, col |-> 30 + 2 * l,
     surplus |-> 10 - l]

ClassifyYears == YearsOf(3)

ClassifySeries(l) ==
    LET first == ClassifyYears[1]
        mid   == ClassifyYears[2]
        last  == ClassifyYears[3]
        dom   == IF l % 2 = 0 THEN {first, mid, last} ELSE {first, last}
    IN  [y \in dom |->
            IF y = last THEN LevelMetrics(l)
            ELSE IF y = first THEN LevelMetrics(MaxLevel - l)
            ELSE LevelMetrics((5 * l) % (MaxLevel + 1))]

\* the first two states take any level; every further state takes level 0
\* or the level of the first state
ClassifyLevels ==
    {lv \in [1..NumStates -> 0..MaxLevel] :
        \A k \in 3..NumStates : lv[k] \in {0, lv[1]}}

ClassifyPool ==
    {[isNull |-> FALSE,
      years  |-> ClassifyYears,
      order  |-> [i \in 1..NumStates |-> StateNames[i]],
      ts     |-> [n \in {StateNames[i] : i \in 1..NumStates} |->
                    ClassifySeries(lv[CHOOSE i \in 1..NumStates : StateNames[i] = n])]]
     : lv \in ClassifyLevels}

(***************************************************************************)
(* Metric Classifier (part_002).                                           *)
(***************************************************************************)
\* the values of a metric over the states that have an entry for the year:
\*   Object.values(this.data.states)
\*       .map(s => s.timeseries[this.currentYear]?.field)
\*       .filter(v => v !== undefined)
yearValues(d, year, field) ==
    {d.ts[n][year][field] : n \in {m \in Keys(d) : HasYear(d, m, year)}}

\* v < min + bin * k   with  bin = (max - min) / B
ltMinPlusBins(v, S, B, k) ==
    /\ S # {}
    /\ B * v < B * MathMin(S) + (MathMax(S) - MathMin(S)) * k

\* v > max - bin * k   with  bin = (max - min) / B
gtMaxMinusBins(v, S, B, k) ==
    /\ S # {}
    /\ B * v > B * MathMax(S) - (MathMax(S) - MathMin(S)) * k

\* a boundary off by one comparison: <= where the code has <
getMLIColor_inclusive(mli) ==
    IF mli <= 90 THEN "#dc2626"
    ELSE IF mli <= 95 THEN "#f97316"
    ELSE IF mli <= 100 THEN "#eab308"
    ELSE IF mli <= 110 THEN "#84cc16"
    ELSE IF mli <= 120 THEN "#22c55e"
    ELSE "#059669"

getMLIColor(mli) ==
    IF mli < 90 THEN "#dc2626"
    ELSE IF mli < 95 THEN "#f97316"
    ELSE IF mli < 100 THEN "#eab308"
    ELSE IF mli < 110 THEN "#84cc16"
    ELSE IF mli < 120 THEN "#22c55e"
    ELSE "#059669"

\* the if-chain of getSurplusColor over the year's values S
surplusColorOver(surplus, S) ==
    IF ltMinPlusBins(surplus, S, 6, 1) THEN "#dc2626"
    ELSE IF ltMinPlusBins(surplus, S, 6, 2) THEN "#f97316"
    ELSE IF ltMinPlusBins(surplus, S, 6, 3) THEN "#eab308"
    ELSE IF ltMinPlusBins(surplus, S, 6, 4) THEN "#84cc16"
    ELSE IF ltMinPlusBins(surplus, S, 6, 5) THEN "#22c55e"
    ELSE "#059669"

\* bins closed at the top: <= where the code has <
getSurplusColor_inclusive(surplus, d, year) ==
    LET S == yearValues(d, year, "surplus")
        le(k) == S # {} /\ 6 * surplus <= 6 * MathMin(S) + (MathMax(S) - MathMin(S)) * k
    IN  IF le(1) THEN "#dc2626"
        ELSE IF le(2) THEN "#f97316"
        ELSE IF le(3) THEN "#eab308"
        ELSE IF le(4) THEN "#84cc16"
        ELSE IF le(5) THEN "#22c55e"
        ELSE "#059669"

getSurplusColor(surplus, d, year) ==
    surplusColorOver(surplus, yearValues(d, year, "surplus"))

\* the if-chain of getIncomeColor over the year's values S
incomeColorOver(income, S) ==
    IF ltMinPlusBins(income, S, 6, 1) THEN "#dc2626"
    ELSE IF ltMinPlusBins(income, S, 6, 2) THEN "#f97316"
    ELSE IF ltMinPlusBins(income, S, 6, 3) THEN "#eab308"
    ELSE IF ltMinPlusBins(income, S, 6, 4) THEN "#84cc16"
    ELSE IF ltMinPlusBins(income, S, 6, 5) THEN "#22c55e"
    ELSE "#059669"

\* the bucket looked up by index, colors[Math.floor((v - min) / bin)]: no
\* colour when the index is NaN (no values, or a range of 0)
getIncomeColor_indexed(income, d, year) ==
    LET S == yearValues(d, year, "income")
    IN  IF S = {} THEN "undefined"
        ELSE IF MathMax(S) = MathMin(S) THEN "undefined"
        ELSE incomeColorOver(income, S)

getIncomeColor(income, d, year) ==
    incomeColorOver(income, yearValues(d, year, "income"))

\* the if-chain of getCOLColor over the year's values S
colColorOver(col, S) ==
    IF gtMaxMinusBins(col, S, 6, 1) THEN "#dc2626"
    ELSE IF gtMaxMinusBins(col, S, 6, 2) THEN "#f97316"
    ELSE IF gtMaxMinusBins(col, S, 6, 3) THEN "#eab308"
    ELSE IF gtMaxMinusBins(col, S, 6, 4) THEN "#84cc16"
    ELSE IF gtMaxMinusBins(col, S, 6, 5) THEN "#22c55e"
    ELSE "#059669"

\* the inversion forgotten: cost of living classified like income
getCOLColor_ascending(col, d, year) ==
    incomeColorOver(col, yearValues(d, year, "col"))

\* bins closed at the bottom: >= where the code has >
getCOLColor_inclusive(col, d, year) ==
    LET S == yearValues(d, year, "col")
        ge(k) == S # {} /\ 6 * col >= 6 * MathMax(S) - (MathMax(S) - MathMin(S)) * k
    IN  IF ge(1) THEN "#dc2626"
        ELSE IF ge(2) THEN "#f97316"
        ELSE IF ge(3) THEN "#eab308"
        ELSE IF ge(4) THEN "#84cc16"
        ELSE IF ge(5) THEN "#22c55e"
        ELSE "#059669"

getCOLColor(col, d, year) ==
    colColorOver(col, yearValues(d, year, "col"))

(***************************************************************************)
(* Metric Classifier of the earlier page script (website/app.js):          *)
(* getMLIColor and getSurplusColor are the same; income and col use five   *)
(* bins, and income has a palette of its own.                              *)
(***************************************************************************)
incomeColorOver_app(income, S) ==
    IF ltMinPlusBins(income, S, 5, 1) THEN "#fef2f2"
    ELSE IF ltMinPlusBins(income, S, 5, 2) THEN "#fef9c3"
    ELSE IF ltMinPlusBins(income, S, 5, 3) THEN "#d1fae5"
    ELSE IF ltMinPlusBins(income, S, 5, 4) THEN "#a7f3d0"
    ELSE "#6ee7b7"

getIncomeColor_app(income, d, year) ==
    incomeColorOver_app(income, yearValues(d, year, "income"))

colColorOver_app(col, S) ==
    IF gtMaxMinusBins(col, S, 5, 1) THEN "#dc2626"
    ELSE IF gtMaxMinusBins(col, S, 5, 2) THEN "#f97316"
    ELSE IF gtMaxMinusBins(col, S, 5, 3) THEN "#eab308"
    ELSE IF gtMaxMinusBins(col, S, 5, 4) THEN "#84cc16"
    ELSE "#059669"

getCOLColor_app(col, d, year) ==
    colColorOver_app(col, yearValues(d, year, "col"))

\* the fill callback of updateMap for one feature of the geometry
fillOf(name, d, year, metric) ==
    IF name \notin Keys(d) THEN "#ccc"
    ELSE IF year \notin DOMAIN d.ts[name] THEN "#ccc"
    ELSE LET yearData == d.ts[name][year]
         IN  CASE metric = "mli"     -> getMLIColor(yearData.mli)
               [] metric = "surplus" -> getSurplusColor(yearData.surplus, d, year)
               [] metric = "income"  -> getIncomeColor(yearData.income, d, year)
               [] metric = "col"     -> getCOLColor(yearData.col, d, year)
               [] OTHER              -> "#ccc"

\* the features of the map geometry
Features(d) == Keys(d) \cup {Territory}

(***************************************************************************)
(* Sorting.  Array.prototype.sort is stable (ECMAScript 2019): the result  *)
(* is ordered by the comparator and elements that compare equal keep       *)
(* their input order.  The comparator is a function on pairs of elements:  *)
(* Cmp[a, b] < 0 puts a before b.                                          *)
(***************************************************************************)
sort(seq, Cmp) ==
    LET n == Len(seq)
        pos == [i \in 1..n |->
                  1 + Cardinality({j \in 1..n :
                        \/ Cmp[seq[j], seq[i]] < 0
                        \/ (Cmp[seq[j], seq[i]] = 0 /\ j < i)})]
    IN  [p \in 1..n |-> seq[CHOOSE i \in 1..n : pos[i] = p]]

\* String.prototype.localeCompare on state names: alphabetical order
nameIndex(name) == CHOOSE i \in 1..Len(StateNames) : StateNames[i] = name

localeCompare(a, b) ==
    IF nameIndex(a) < nameIndex(b) THEN -1
    ELSE IF nameIndex(a) > nameIndex(b) THEN 1 ELSE 0

(***************************************************************************)
(* Ranking Engine.                                                         *)
(***************************************************************************)
\* reading .mli of the current year's entry of every state raises a
\* TypeError when some state has no entry for the year
rankingThrows(d, year) == ~CompleteYear(d, year)

\* competition ranking: 1 + the number of states with a higher mli, so
\* that tied states share a rank
getStateRanking_dense(stateName, d, year) ==
    IF stateName \in Keys(d)
    THEN 1 + Cardinality({n \in Keys(d) :
                            d.ts[n][year].mli > d.ts[stateName][year].mli})
    ELSE 0

\* the comparator reversed: a.mli - b.mli
getStateRanking_ascending(stateName, d, year) ==
    LET statesData == [i \in 1..Len(d.order) |->
                         [name |-> d.order[i], mli |-> d.ts[d.order[i]][year].mli]]
        sorted == sort(statesData, [a \in Range(statesData), b \in Range(statesData) |->
                        a.mli - b.mli])
    IN  IF \E i \in 1..Len(sorted) : sorted[i].name = stateName
        THEN (CHOOSE i \in 1..Len(sorted) : sorted[i].name = stateName)
        ELSE 0

getStateRanking(stateName, d, year) ==
    LET statesData == [i \in 1..Len(d.order) |->
                         [name |-> d.order[i], mli |-> d.ts[d.order[i]][year].mli]]
        sorted == sort(statesData, [a \in Range(statesData), b \in Range(statesData) |->
                        b.mli - a.mli])
    IN  IF \E i \in 1..Len(sorted) : sorted[i].name = stateName
        THEN (CHOOSE i \in 1..Len(sorted) : sorted[i].name = stateName)
        ELSE 0

(***************************************************************************)
(* Rankings table.                                                         *)
(***************************************************************************)
TopN == 10

tableThrows(d, years, year) ==
    \/ Len(years) = 0
    \/ ~CompleteYear(d, year)
    \/ ~CompleteYear(d, At0(years, 0))

\* the change5yr of one row of updateRankingsTable
tableChange5yr(n, d, years, year) ==
    LET fiveYearIndex == findIndex(years, year) - 5
    IN  IF fiveYearIndex >= 0
        THEN LET fiveYearsAgo == At0(years, fiveYearIndex)
             IN  IF fiveYearsAgo \in DOMAIN d.ts[n]
                 THEN d.ts[n][year].mli - d.ts[n][fiveYearsAgo].mli
                 ELSE 0
        ELSE 0

\* the statesData array built by updateRankingsTable, in dataset order
tableStatesData(d, years, year) ==
    [i \in 1..Len(d.order) |->
        LET name == d.order[i]
            yearData == d.ts[name][year]
            firstYearData == d.ts[name][At0(years, 0)]
        IN  [name      |-> name,
             mli       |-> yearData.mli,
             surplus   |-> yearData.surplus,
             income    |-> yearData.income,
             col       |-> yearData.col,
             change    |-> yearData.mli - firstYearData.mli,
             change5yr |-> tableChange5yr(name, d, years, year)]]

\* the direction is not looked at
sortStates_oneWay(states, sortKey, dir) ==
    CASE sortKey = "name" ->
            sort(states, [a \in Range(states), b \in Range(states) |->
                    localeCompare(a.name, b.name)])
      [] sortKey \in {"rank", "mli"} ->
            sort(states, [a \in Range(states), b \in Range(states) |->
                    b.mli - a.mli])
      [] sortKey \in {"surplus", "income", "col", "change5yr", "change"} ->
            sort(states, [a \in Range(states), b \in Range(states) |->
                    b[sortKey] - a[sortKey]])
      [] OTHER -> states

sortStates(states, sortKey, dir) ==
    LET direction == IF dir = "asc" THEN -1 ELSE 1
    IN  CASE sortKey = "name" ->
                sort(states, [a \in Range(states), b \in Range(states) |->
                        direction * localeCompare(a.name, b.name)])
          [] sortKey \in {"rank", "mli"} ->
                sort(states, [a \in Range(states), b \in Range(states) |->
                        direction * (b.mli - a.mli)])
          [] sortKey \in {"surplus", "income", "col", "change5yr", "change"} ->
                sort(states, [a \in Range(states), b \in Range(states) |->
                        direction * (b[sortKey] - a[sortKey])])
          [] OTHER -> states

\* the rows updateRankingsTable writes into #rankingsBody
updateRankingsTable(filter, d, years, year, sortKey, dir) ==
    LET statesData == sortStates(tableStatesData(d, years, year), sortKey, dir)
        displayData ==
            IF filter = "top10" THEN slice(statesData, 0, TopN)
            ELSE IF filter = "bottom10"
                 THEN reverse(slice(statesData, 0 - TopN, Len(statesData)))
                 ELSE statesData
    IN  [i \in 1..Len(displayData) |->
            [rank |-> IF filter = "bottom10" THEN Len(statesData) - (i - 1) ELSE i,
             row  |-> displayData[i]]]

\* the row styles after tbody.innerHTML is rewritten: every row is new and
\* has no inline display
freshRows(rows) == [i \in 1..Len(rows) |-> ""]

\* only the rows that are visible are looked at
filterTable_visibleOnly(rows, display, searchTerm) ==
    LET term == toLowerCase(searchTerm)
    IN  [i \in 1..Len(rows) |->
            IF display[i] = "none" THEN "none"
            ELSE IF includes(toLowerCase(Spelling[rows[i].row.name]), term)
                 THEN "" ELSE "none"]

\* the name is not lower-cased
filterTable_caseSensitive(rows, display, searchTerm) ==
    LET term == toLowerCase(searchTerm)
    IN  [i \in 1..Len(rows) |->
            IF includes(Spelling[rows[i].row.name], term) THEN "" ELSE "none"]

\* filterTable: the style.display it leaves on every row of #rankingsBody;
\* display is the style the rows had, which every row gets overwritten
filterTable(rows, display, searchTerm) ==
    LET term == toLowerCase(searchTerm)
    IN  [i \in 1..Len(rows) |->
            LET stateName == toLowerCase(Spelling[rows[i].row.name])
            IN  IF includes(stateName, term) THEN "" ELSE "none"]

(***************************************************************************)
(* Stats banner and insights.                                              *)
(***************************************************************************)
NoBanner == [rendered |-> FALSE, surplus |-> 0, breakEven |-> 0, deficit |-> 0]

\* break-even leaves out its two end points
updateStatsBanner_exclusive(d, year) ==
    LET mlis == [n \in Keys(d) |-> d.ts[n][year].mli]
    IN  [rendered  |-> TRUE,
         surplus   |-> Cardinality({n \in Keys(d) : mlis[n] > 105}),
         breakEven |-> Cardinality({n \in Keys(d) : mlis[n] > 95 /\ mlis[n] < 105}),
         deficit   |-> Cardinality({n \in Keys(d) : mlis[n] < 95})]

updateStatsBanner(d, year) ==
    LET mlis == [n \in Keys(d) |-> d.ts[n][year].mli]
    IN  [rendered  |-> TRUE,
         surplus   |-> Cardinality({n \in Keys(d) : mlis[n] > 105}),
         breakEven |-> Cardinality({n \in Keys(d) : mlis[n] >= 95 /\ mlis[n] <= 105}),
         deficit   |-> Cardinality({n \in Keys(d) : mlis[n] < 95})]

insightsThrows(d, years, year) ==
    \/ ~CompleteYear(d, year)
    \/ (findIndex(years, year) - 5 < 0 /\ ~CompleteYear(d, At0(years, 0)))

\* the change5yr of one entry of updateInsights
insightsChange5yr(n, d, years, year) ==
    LET fiveYearIndex == findIndex(years, year) - 5
    IN  IF fiveYearIndex >= 0
        THEN LET fiveYearsAgo == At0(years, fiveYearIndex)
             IN  IF fiveYearsAgo \in DOMAIN d.ts[n]
                 THEN d.ts[n][year].mli - d.ts[n][fiveYearsAgo].mli
                 ELSE 0
        ELSE d.ts[n][year].mli - d.ts[n][At0(years, 0)].mli

NoInsights == [rendered |-> FALSE, best |-> <<>>, worst |-> <<>>,
               improved |-> <<>>, declined |-> <<>>]

updateInsights(d, years, year) ==
    LET raw == [i \in 1..Len(d.order) |->
                  [name   |-> d.order[i],
                   mli    |-> d.ts[d.order[i]][year].mli,
                   change |-> insightsChange5yr(d.order[i], d, years, year)]]
        statesData == sort(raw, [a \in Range(raw), b \in Range(raw) |->
                        b.mli - a.mli])
    IN  [rendered |-> TRUE,
         best     |-> slice(statesData, 0, 5),
         worst    |-> reverse(slice(statesData, -4, Len(statesData))),
         improved |-> slice(sort(statesData,
                          [a \in Range(statesData), b \in Range(statesData) |->
                              b.change - a.change]), 0, 5),
         declined |-> slice(sort(statesData,
                          [a \in Range(statesData), b \in Range(statesData) |->
                              a.change - b.change]), 0, 4)]

(***************************************************************************)
(* Ranking datasets: every state has a base mli of 0.80, 1.00 or 1.20 and  *)
(* drifts from it by a slope of its own, so that states tie in some years  *)
(* and not in others; the states appear in the dataset in several orders;  *)
(* the series is long or short; optionally the first state of the          *)
(* alphabet has no entry for the second year.                              *)
(***************************************************************************)
RankBases == {80, 100, 120}

slopeOf(k) == ((2 * k) % 5) - 1

RankMetrics(k, base, idx) ==
    LET income == 40 + 2 * k + idx
        col    == 38 + 2 * ((3 * k) % 4) + idx
    IN  [mli |-> base + slopeOf(k) * (idx % 3), income |-> income, col |-> col,
         surplus |-> income - col]

RankSeries(k, base, years, gap) ==
    [y \in {years[i] : i \in {j \in 1..Len(years) : ~(gap /\ k = 1 /\ j = 2)}} |->
        RankMetrics(k, base, findIndex(years, y))]

IdentityOrder == [i \in 1..NumStates |-> StateNames[i]]

RankOrders ==
    { IdentityOrder,
      [i \in 1..NumStates |-> StateNames[NumStates + 1 - i]],
      [i \in 1..NumStates |-> StateNames[(i % NumStates) + 1]] }

\* the first two states take any base; the further states are all at 1.00
\* or all at the base of the first state
RankBaseVectors ==
    {base \in [1..NumStates -> RankBases] :
        \E c \in {100, base[1]} : \A k \in 3..NumStates : base[k] = c}

MkRankData(ord, base, len, gap) ==
    [isNull |-> FALSE,
     years  |-> YearsOf(len),
     order  |-> ord,
     ts     |-> [n \in Range(ord) |->
                   RankSeries(nameIndex(n), base[nameIndex(n)], YearsOf(len), gap)]]

RankPool ==
    {MkRankData(ord, base, len, FALSE)
        : ord \in RankOrders, base \in RankBaseVectors, len \in {ShortYears, LongYears}}
    \cup
    {MkRankData(IdentityOrder, base, LongYears, TRUE)
        : base \in {b \in RankBaseVectors : b[1] = 100}}

\* one short dataset for the whole application: 1.20, 0.80, 1.00, ...
CorePool ==
    {MkRankData(IdentityOrder, base, ShortYears, FALSE)
        : base \in {b \in RankBaseVectors :
                      /\ b[1] = 120
                      /\ b[2] = 80
                      /\ \A k \in 3..NumStates : b[k] = 100}}

\* the sorting datasets: the ranking datasets whose first state is at 1.00
SortPool == {d \in RankPool : d.ts[StateNames[1]][d.years[1]].mli = 100}

\* the table datasets are short: one whose states all tie in the first
\* year, listed in rotated order; the 1.20 / 0.80 / 1.00 dataset; and a wide
\* one of WideStates states in scrambled order
WideOrder == [i \in 1..WideStates |-> StateNames[((5 * i) % WideStates) + 1]]

WideBase == [k \in 1..Len(StateNames) |-> 70 + 4 * ((7 * k) % WideStates)]

TablePool ==
    {MkRankData([i \in 1..NumStates |-> StateNames[(i % NumStates) + 1]],
                [k \in 1..NumStates |-> 100], ShortYears, FALSE),
     MkRankData(WideOrder, WideBase, ShortYears, FALSE)}
    \cup CorePool

(***************************************************************************)
(* The application.                                                        *)
(***************************************************************************)
Metrics == {"mli", "surplus", "income", "col"}

SortKeys == {"name", "mli", "surplus", "income", "col", "change5yr", "change"}

Tabs == {"all", "top10", "bottom10"}

\* texts typed into the search box: nothing, upper-case letters two names
\* begin with, letters from the middle of a name, and a digit
SearchTerms == {<<>>, <<"A", "L", "A">>, <<"o", "n">>, <<"1">>}

\* the inputs where the whole application runs: the metrics selected, the
\* headers clicked, the texts typed, the table rows and the map paths
\* clicked
CoreMetrics == {"mli", "income"}

CoreSortKeys == {"name", "col"}

CoreSearchTerms == {<<>>, <<"A", "L", "A">>}

CoreRows == {StateNames[2]}

CorePaths == {StateNames[1], Territory}

\* the table rows clicked where the banner is examined
BannerRows == {StateNames[1], StateNames[2]}

NoLegend == [metric |-> "none", year |-> 0]

\* #trendInsight before any state is selected; stateName and year: the
\* state and the selected year the insight was written for
NoTrend == [rendered |-> FALSE, stateName |-> "", year |-> 0, fromYear |-> 0,
            toYear |-> 0, change |-> 0, improving |-> FALSE]

\* rankedState and year: the state and the year #mliRank was computed for
NoPanel == [display |-> "none", stateName |-> "", mliRank |-> 0,
            rankedState |-> "", year |-> 0,
            interpretation |-> [percent |-> 0, text |-> ""],
            interpClass |-> "", trend |-> NoTrend]

\* the market divergence page as served: nothing filled in, no chart, no
\* listener
NoDivergence ==
    [phase |-> "loading", fetched |-> FALSE, banner |-> FALSE,
     findings |-> FALSE, charts |-> {}, listeners |-> FALSE,
     container |-> "page", activePeriod |-> "markup"]

\* constructor
Init ==
    /\ phase = "constructed"
    /\ data = NullData
    /\ marketData = "null"
    /\ currentYear = 2023
    /\ currentMetric = "mli"
    /\ selectedState = "null"
    /\ map = "null"
    /\ availableYears = <<>>
    /\ currentSort = "mli"
    /\ sortDirection = "desc"
    /\ mapPending = FALSE
    /\ mapFill = <<>>
    /\ listeners = FALSE
    /\ errorShown = FALSE
    /\ statsBanner = NoBanner
    /\ rankingsBody = <<>>
    /\ activeTab = "all"
    /\ insights = NoInsights
    /\ legend = NoLegend
    /\ detailPanel = NoPanel
    /\ selectedFeature = "none"
    /\ searchBox = <<>>
    /\ rowDisplay = <<>>
    /\ divergence = NoDivergence
    /\ hideTimers = 0

\* loadData resolves with the document d
LoadData(d) ==
    /\ phase = "constructed"
    /\ Len(d.years) > 0
    /\ data' = d
    /\ availableYears' = d.years
    /\ currentYear' = At0(d.years, Len(d.years) - 1)
    /\ phase' = "dataLoaded"
    /\ UNCHANGED <<currentMetric, currentSort, sortDirection, selectedState, map,
                   mapPending, mapFill, listeners, errorShown, statsBanner,
                   rankingsBody, activeTab, insights, legend, detailPanel,
                   selectedFeature, marketData,
                   searchBox, rowDisplay, divergence, hideTimers>>

\* the failure is noticed only after setupEventListeners and createMap
LoadDataFail_afterSetup ==
    /\ phase = "constructed"
    /\ phase' = "error"
    /\ errorShown' = TRUE
    /\ listeners' = TRUE
    /\ mapPending' = TRUE
    /\ UNCHANGED <<data, availableYears, currentYear, currentMetric, currentSort,
                   sortDirection, selectedState, map, mapFill,
                   statsBanner, rankingsBody, activeTab, insights,
                   legend, detailPanel, selectedFeature, marketData,
                   searchBox, rowDisplay, divergence, hideTimers>>

\* the fetch or the parse of mli_data.json fails: loadData throws, init
\* catches and calls showError
LoadDataFail ==
    /\ phase = "constructed"
    /\ phase' = "error"
    /\ errorShown' = TRUE
    /\ UNCHANGED <<data, availableYears, currentYear, currentMetric, currentSort,
                   sortDirection, selectedState, map, mapPending, mapFill,
                   listeners, statsBanner, rankingsBody, activeTab, insights,
                   legend, detailPanel, selectedFeature, marketData,
                   searchBox, rowDisplay, divergence, hideTimers>>

\* loadMarketData settles (it swallows its own failure)
LoadMarketData(ok) ==
    /\ phase = "dataLoaded"
    /\ marketData' = IF ok THEN "loaded" ELSE "null"
    /\ phase' = "marketLoaded"
    /\ UNCHANGED <<data, availableYears, currentYear, currentMetric, currentSort,
                   sortDirection, selectedState, map, mapPending, mapFill,
                   listeners, errorShown, statsBanner, rankingsBody, activeTab,
                   insights, legend, detailPanel, selectedFeature,
                   searchBox, rowDisplay, divergence, hideTimers>>

\* the rest of init: setupEventListeners, createMap, updateStatsBanner,
\* updateRankingsTable, updateInsights, populateStateSelectors, updateLegend;
\* the first call that throws ends it in showError
FinishInit ==
    /\ phase = "marketLoaded"
    /\ listeners' = TRUE
    /\ mapPending' = TRUE
    /\ LET bannerOk   == ~rankingThrows(data, currentYear)
           tableOk    == bannerOk /\ ~tableThrows(data, availableYears, currentYear)
           insightsOk == tableOk /\ ~insightsThrows(data, availableYears, currentYear)
       IN  /\ statsBanner' = IF bannerOk THEN updateStatsBanner(data, currentYear)
                             ELSE statsBanner
           /\ rankingsBody' = IF tableOk
                              THEN updateRankingsTable("all", data, availableYears,
                                       currentYear, currentSort, sortDirection)
                              ELSE rankingsBody
           /\ rowDisplay' = IF tableOk THEN freshRows(rankingsBody')
                            ELSE rowDisplay
           /\ insights' = IF insightsOk
                          THEN updateInsights(data, availableYears, currentYear)
                          ELSE insights
           /\ legend' = IF insightsOk
                        THEN [metric |-> currentMetric, year |-> currentYear]
                        ELSE legend
           /\ errorShown' = ~insightsOk
           /\ phase' = IF insightsOk THEN "ready" ELSE "error"
    /\ UNCHANGED <<data, availableYears, currentYear, currentMetric, currentSort,
                   sortDirection, selectedState, map, mapFill, activeTab,
                   detailPanel, selectedFeature, marketData,
                   searchBox, divergence, hideTimers>>

\* updateMap: no effect while this.map is null
updateMap(m, d, year, metric) ==
    IF m = "null" THEN mapFill
    ELSE [f \in Features(d) |-> fillOf(f, d, year, metric)]

\* the callback paints with the year and the metric that were current when
\* createMap was called
MapLoaded_asRequested ==
    /\ mapPending
    /\ mapPending' = FALSE
    /\ map' = "paths"
    /\ mapFill' = updateMap("paths", data,
                            At0(availableYears, Len(availableYears) - 1), "mli")
    /\ UNCHANGED <<phase, data, availableYears, currentYear, currentMetric,
                   currentSort, sortDirection, selectedState, listeners,
                   errorShown, statsBanner, rankingsBody, activeTab, insights,
                   legend, detailPanel, selectedFeature, marketData,
                   searchBox, rowDisplay, divergence, hideTimers>>

\* the geometry request of createMap resolves: the paths are joined and
\* updateMap runs
MapLoaded ==
    /\ mapPending
    /\ mapPending' = FALSE
    /\ map' = "paths"
    /\ mapFill' = updateMap("paths", data, currentYear, currentMetric)
    /\ UNCHANGED <<phase, data, availableYears, currentYear, currentMetric,
                   currentSort, sortDirection, selectedState, listeners,
                   errorShown, statsBanner, rankingsBody, activeTab, insights,
                   legend, detailPanel, selectedFeature, marketData,
                   searchBox, rowDisplay, divergence, hideTimers>>

\* the geometry request fails: the rejection is not handled, no map exists
MapLoadFail ==
    /\ mapPending
    /\ mapPending' = FALSE
    /\ UNCHANGED <<phase, data, availableYears, currentYear, currentMetric,
                   currentSort, sortDirection, selectedState, map, mapFill,
                   listeners, errorShown, statsBanner, rankingsBody, activeTab,
                   insights, legend, detailPanel, selectedFeature, marketData,
                   searchBox, rowDisplay, divergence, hideTimers>>

\* the listeners are registered by the constructor
Interactive_sinceConstruction == ~errorShown

\* the controls live inside <main>: they exist once the listeners are
\* registered and until showError replaces the content
Interactive == phase = "ready" /\ listeners /\ ~errorShown

\* yearSlider 'input' with slider value index
YearSlider(index) ==
    /\ Interactive
    /\ index \in 0..(Len(availableYears) - 1)
    /\ LET year    == At0(availableYears, index)
           tableOk == ~tableThrows(data, availableYears, year)
       IN  /\ currentYear' = year
           /\ mapFill' = updateMap(map, data, year, currentMetric)
           /\ rankingsBody' = IF tableOk
                              THEN updateRankingsTable("all", data, availableYears,
                                       year, currentSort, sortDirection)
                              ELSE rankingsBody
           /\ rowDisplay' = IF tableOk THEN freshRows(rankingsBody')
                            ELSE rowDisplay
           /\ statsBanner' = IF tableOk THEN updateStatsBanner(data, year)
                             ELSE statsBanner
           /\ legend' = IF tableOk THEN [metric |-> currentMetric, year |-> year]
                        ELSE legend
    /\ UNCHANGED <<phase, data, availableYears, currentMetric, currentSort,
                   sortDirection, selectedState, map, mapPending, listeners,
                   errorShown, activeTab, insights, detailPanel,
                   selectedFeature, marketData,
                   searchBox, divergence, hideTimers>>

\* metricSelect 'change'
MetricSelect(metric) ==
    /\ Interactive
    /\ metric \in Metrics
    /\ currentMetric' = metric
    /\ mapFill' = updateMap(map, data, currentYear, metric)
    /\ legend' = [metric |-> metric, year |-> currentYear]
    /\ UNCHANGED <<phase, data, availableYears, currentYear, currentSort,
                   sortDirection, selectedState, map, mapPending, listeners,
                   errorShown, statsBanner, rankingsBody, activeTab, insights,
                   detailPanel, selectedFeature, marketData,
                   searchBox, rowDisplay, divergence, hideTimers>>

\* a new key keeps the direction
toggleSort_keepDirection(key, dir, sortKey) ==
    IF key = sortKey
    THEN [currentSort   |-> key,
          sortDirection |-> IF dir = "desc" THEN "asc" ELSE "desc"]
    ELSE [currentSort |-> sortKey, sortDirection |-> dir]

\* the header click listener's new (currentSort, sortDirection)
toggleSort(key, dir, sortKey) ==
    IF key = sortKey
    THEN [currentSort   |-> key,
          sortDirection |-> IF dir = "desc" THEN "asc" ELSE "desc"]
    ELSE [currentSort |-> sortKey, sortDirection |-> "desc"]

\* click on a sortable header of the rankings table
HeaderClick(sortKey) ==
    /\ Interactive
    /\ sortKey \in SortKeys
    /\ LET toggled == toggleSort(currentSort, sortDirection, sortKey)
           newSort == toggled.currentSort
           newDir  == toggled.sortDirection
           tableOk == ~tableThrows(data, availableYears, currentYear)
       IN  /\ currentSort' = newSort
           /\ sortDirection' = newDir
           /\ rankingsBody' =
                IF tableOk
                THEN updateRankingsTable("all", data, availableYears, currentYear,
                                         newSort, newDir)
                ELSE rankingsBody
           /\ rowDisplay' = IF tableOk THEN freshRows(rankingsBody')
                            ELSE rowDisplay
    /\ UNCHANGED <<phase, data, availableYears, currentYear, currentMetric,
                   selectedState, map, mapPending, mapFill, listeners, errorShown,
                   statsBanner, activeTab, insights, legend, detailPanel,
                   selectedFeature, marketData,
                   searchBox, divergence, hideTimers>>

\* the sort acts on the key order of the dataset itself
TabClick_inPlace(tab) ==
    /\ Interactive
    /\ tab \in Tabs
    /\ activeTab' = tab
    /\ ~tableThrows(data, availableYears, currentYear)
    /\ rankingsBody' = updateRankingsTable(tab, data, availableYears, currentYear,
                                           currentSort, sortDirection)
    /\ rowDisplay' = freshRows(rankingsBody')
    /\ data' = [data EXCEPT !.order =
                  LET sorted == sortStates(tableStatesData(data, availableYears,
                                               currentYear), currentSort, sortDirection)
                  IN  [i \in 1..Len(sorted) |-> sorted[i].name]]
    /\ UNCHANGED <<phase, availableYears, currentYear, currentMetric,
                   currentSort, sortDirection, selectedState, map, mapPending,
                   mapFill, listeners, errorShown, statsBanner, insights, legend,
                   detailPanel, selectedFeature, marketData,
                   searchBox, divergence, hideTimers>>

\* click on a tab button
TabClick(tab) ==
    /\ Interactive
    /\ tab \in Tabs
    /\ activeTab' = tab
    /\ rankingsBody' =
         IF ~tableThrows(data, availableYears, currentYear)
         THEN updateRankingsTable(tab, data, availableYears, currentYear,
                                  currentSort, sortDirection)
         ELSE rankingsBody
    /\ rowDisplay' = IF ~tableThrows(data, availableYears, currentYear)
                     THEN freshRows(rankingsBody')
                     ELSE rowDisplay
    /\ UNCHANGED <<phase, data, availableYears, currentYear, currentMetric,
                   currentSort, sortDirection, selectedState, map, mapPending,
                   mapFill, listeners, errorShown, statsBanner, insights, legend,
                   detailPanel, selectedFeature, marketData,
                   searchBox, divergence, hideTimers>>

\* searchBox 'input' with the text now in the box
SearchInput(searchTerm) ==
    /\ Interactive
    /\ searchBox' = searchTerm
    /\ rowDisplay' = filterTable(rankingsBody, rowDisplay, searchTerm)
    /\ UNCHANGED <<phase, data, availableYears, currentYear, currentMetric,
                   currentSort, sortDirection, selectedState, map, mapPending,
                   mapFill, listeners, errorShown, statsBanner, rankingsBody,
                   activeTab, insights, legend, detailPanel, selectedFeature,
                   marketData, divergence, hideTimers>>

\* getMLIInterpretation: the text shown for an mli; the percentage is
\* (1.0 - mli) * 100 or (mli - 1.0) * 100 without decimals
getMLIInterpretation(mli) ==
    IF mli < 95 THEN [percent |-> 100 - mli, text |-> "% deficit"]
    ELSE IF mli > 105 THEN [percent |-> mli - 100, text |-> "% surplus"]
    ELSE [percent |-> 0, text |-> "Break even"]

\* the class showDetailPanel adds to #mliInterpretation
interpretationClass(mli) ==
    IF mli > 105 THEN "surplus"
    ELSE IF mli < 95 THEN "deficit"
    ELSE "breakeven"

\* createTrendChart reads .mli of the state's entry for every available
\* year: a TypeError when one is missing
trendChartThrows(stateName, d, years) ==
    \E i \in 1..Len(years) : years[i] \notin DOMAIN d.ts[stateName]

\* createTrendInsight: the years and the change #trendInsight describes
\* (the percentage of the text is left out)
createTrendInsight(stateName, d, years, year) ==
    LET currentYearIndex == findIndex(years, year)
        fiveYearIndex    == currentYearIndex - 5
    IN  IF fiveYearIndex >= 0
        THEN LET fiveYearsAgo == At0(years, fiveYearIndex)
                 pastMLI      == d.ts[stateName][fiveYearsAgo].mli
                 currentMLI   == d.ts[stateName][year].mli
             IN  [rendered |-> TRUE, stateName |-> stateName, year |-> year,
                  fromYear |-> fiveYearsAgo, toYear |-> year,
                  change |-> currentMLI - pastMLI,
                  improving |-> currentMLI - pastMLI > 0]
        ELSE LET firstYear == At0(years, 0)
                 lastYear  == At0(years, Len(years) - 1)
                 firstMLI  == d.ts[stateName][firstYear].mli
                 lastMLI   == d.ts[stateName][lastYear].mli
             IN  [rendered |-> TRUE, stateName |-> stateName, year |-> year,
                  fromYear |-> firstYear, toYear |-> lastYear,
                  change |-> lastMLI - firstMLI,
                  improving |-> lastMLI - firstMLI > 0]

\* showDetailPanel: nothing for a name without data; otherwise the panel is
\* displayed and named; the rank and the interpretation are written unless
\* reading the current year's entries throws first, and the trend insight
\* unless createTrendChart throws before it
showDetailPanel(stateName, d, years, year) ==
    IF stateName \notin Keys(d) THEN detailPanel
    ELSE IF rankingThrows(d, year)
         THEN [detailPanel EXCEPT !.display = "block", !.stateName = stateName]
         ELSE LET yearData == d.ts[stateName][year]
              IN  [display   |-> "block",
                   stateName |-> stateName,
                   mliRank   |-> getStateRanking(stateName, d, year),
                   rankedState |-> stateName,
                   year      |-> year,
                   interpretation |-> getMLIInterpretation(yearData.mli),
                   interpClass    |-> interpretationClass(yearData.mli),
                   trend     |-> IF trendChartThrows(stateName, d, years)
                                 THEN detailPanel.trend
                                 ELSE createTrendInsight(stateName, d, years, year)]

\* click on a row of the rankings table
SelectStateFromTable(stateName) ==
    /\ Interactive
    /\ \E i \in 1..Len(rankingsBody) : rankingsBody[i].row.name = stateName
    /\ selectedState' = stateName
    /\ detailPanel' = showDetailPanel(stateName, data, availableYears, currentYear)
    /\ UNCHANGED <<phase, data, availableYears, currentYear, currentMetric,
                   currentSort, sortDirection, map, mapPending, mapFill,
                   listeners, errorShown, statsBanner, rankingsBody, activeTab,
                   insights, legend, selectedFeature, marketData,
                   searchBox, rowDisplay, divergence, hideTimers>>

\* click on a path of the map: selectState
MapClick(feature) ==
    /\ Interactive
    /\ map = "paths"
    /\ feature \in Features(data)
    /\ selectedState' = feature
    /\ detailPanel' = showDetailPanel(feature, data, availableYears, currentYear)
    /\ selectedFeature' =
         IF feature \in Keys(data) /\ rankingThrows(data, currentYear)
         THEN selectedFeature
         ELSE feature
    /\ UNCHANGED <<phase, data, availableYears, currentYear, currentMetric,
                   currentSort, sortDirection, map, mapPending, mapFill,
                   listeners, errorShown, statsBanner, rankingsBody, activeTab,
                   insights, legend, marketData,
                   searchBox, rowDisplay, divergence, hideTimers>>

\* click on #closeDetail: closeDetailPanel starts the 300 ms timer that
\* will hide the panel, clears the selection and the 'selected' class
CloseDetailPanel ==
    /\ Interactive
    /\ detailPanel.display = "block"
    /\ hideTimers < MaxTimers
    /\ hideTimers' = hideTimers + 1
    /\ selectedState' = "null"
    /\ selectedFeature' = IF map = "null" THEN selectedFeature ELSE "none"
    /\ UNCHANGED <<phase, data, availableYears, currentYear, currentMetric,
                   currentSort, sortDirection, map, mapPending, mapFill,
                   listeners, errorShown, statsBanner, rankingsBody, activeTab,
                   insights, legend, detailPanel, marketData,
                   searchBox, rowDisplay, divergence>>

\* a timer of closeDetailPanel fires: panel.style.display = 'none'
HideTimer ==
    /\ hideTimers > 0
    /\ hideTimers' = hideTimers - 1
    /\ detailPanel' = [detailPanel EXCEPT !.display = "none"]
    /\ UNCHANGED <<phase, data, availableYears, currentYear, currentMetric,
                   currentSort, sortDirection, selectedState, map, mapPending,
                   mapFill, listeners, errorShown, statsBanner, rankingsBody,
                   activeTab, insights, legend, selectedFeature, marketData,
                   searchBox, rowDisplay, divergence>>

(***************************************************************************)
(* The market divergence page: a document of its own, whose script loads   *)
(* market_divergence_corrected.json once the DOM is ready.  A document     *)
(* is the set of its sections that are present.                            *)
(***************************************************************************)
DivergenceSections ==
    {"summary_2012_2023", "summary_2018_2023", "state_changes_2018_2023",
     "market_comparison_2012", "market_comparison_2018"}

DivergenceDocs ==
    {DivergenceSections,
     DivergenceSections \ {"market_comparison_2018"},
     DivergenceSections \ {"summary_2012_2023"}}

Periods == {"2012", "2018"}

\* initializePage: the steps that complete before the first one that reads
\* a missing section throws
initializePage(doc) ==
    LET bannerOk   == {"summary_2012_2023", "summary_2018_2023"} \subseteq doc
        findingsOk == bannerOk /\ "state_changes_2018_2023" \in doc
        chart2012  == findingsOk /\ "market_comparison_2012" \in doc
        chart2018  == chart2012 /\ "market_comparison_2018" \in doc
    IN  [banner   |-> bannerOk,
         findings |-> findingsOk,
         charts   |-> {p \in Periods : \/ (p = "2012" /\ chart2012)
                                       \/ (p = "2018" /\ chart2018)},
         ok       |-> chart2018]

\* the fetch and the parse succeed: initializePage, then setupInteractivity;
\* a throw on the way ends in showError
DivergenceLoaded(doc) ==
    /\ divergence.phase = "loading"
    /\ LET page == initializePage(doc)
       IN  divergence' =
             [phase        |-> IF page.ok THEN "ready" ELSE "error",
              fetched      |-> TRUE,
              banner       |-> page.banner,
              findings     |-> page.findings,
              charts       |-> page.charts,
              listeners    |-> page.ok,
              container    |-> IF page.ok THEN "page" ELSE "error",
              activePeriod |-> divergence.activePeriod]
    /\ UNCHANGED <<phase, data, availableYears, currentYear, currentMetric,
                   currentSort, sortDirection, selectedState, map, mapPending,
                   mapFill, listeners, errorShown, statsBanner, rankingsBody,
                   activeTab, insights, legend, detailPanel, selectedFeature,
                   marketData, searchBox, rowDisplay, hideTimers>>

\* the fetch or the parse fails: showError replaces the container
DivergenceLoadFail ==
    /\ divergence.phase = "loading"
    /\ divergence' = [divergence EXCEPT !.phase = "error", !.container = "error"]
    /\ UNCHANGED <<phase, data, availableYears, currentYear, currentMetric,
                   currentSort, sortDirection, selectedState, map, mapPending,
                   mapFill, listeners, errorShown, statsBanner, rankingsBody,
                   activeTab, insights, legend, detailPanel, selectedFeature,
                   marketData, searchBox, rowDisplay, hideTimers>>

\* click on a period tab
PeriodTabClick(period) ==
    /\ divergence.listeners
    /\ divergence.container = "page"
    /\ period \in Periods
    /\ divergence' = [divergence EXCEPT !.activePeriod = period]
    /\ UNCHANGED <<phase, data, availableYears, currentYear, currentMetric,
                   currentSort, sortDirection, selectedState, map, mapPending,
                   mapFill, listeners, errorShown, statsBanner, rankingsBody,
                   activeTab, insights, legend, detailPanel, selectedFeature,
                   marketData, searchBox, rowDisplay, hideTimers>>

(***************************************************************************)
(* Specifications.                                                         *)
(***************************************************************************)
\* the classifier, over the classification datasets
NextClassify ==
    \/ \E d \in ClassifyPool : LoadData(d)
    \/ LoadMarketData(TRUE)
    \/ FinishInit
    \/ MapLoaded
    \/ \E index \in 0..2 : YearSlider(index)
    \/ \E metric \in Metrics : MetricSelect(metric)

SpecClassify == Init /\ [][NextClassify]_vars

\* the ranking engine and the table, over the ranking datasets
NextRank ==
    \/ \E d \in RankPool : LoadData(d)
    \/ LoadMarketData(TRUE)
    \/ FinishInit
    \/ \E index \in 0..(LongYears - 1) : YearSlider(index)
    \/ \E n \in Range(StateNames) : SelectStateFromTable(n)

SpecRank == Init /\ [][NextRank]_vars

\* sorting by the table headers, over the ranking datasets
NextSort ==
    \/ \E d \in SortPool : LoadData(d)
    \/ LoadMarketData(TRUE)
    \/ FinishInit
    \/ \E index \in 0..(LongYears - 1) : YearSlider(index)
    \/ \E sortKey \in SortKeys : HeaderClick(sortKey)

SpecSort == Init /\ [][NextSort]_vars

\* the rankings table with its tabs and its search box
NextTable ==
    \/ \E d \in TablePool : LoadData(d)
    \/ LoadMarketData(TRUE)
    \/ FinishInit
    \/ \E index \in 0..(ShortYears - 1) : YearSlider(index)
    \/ \E sortKey \in CoreSortKeys : HeaderClick(sortKey)
    \/ \E tab \in Tabs : TabClick(tab)
    \/ \E searchTerm \in SearchTerms : SearchInput(searchTerm)

SpecTable == Init /\ [][NextTable]_vars

\* loading: both pages, every way init can end, and the controls after it
NextLoad ==
    \/ \E d \in RankPool : LoadData(d)
    \/ LoadDataFail
    \/ \E ok \in BOOLEAN : LoadMarketData(ok)
    \/ FinishInit
    \/ MapLoaded
    \/ MapLoadFail
    \/ \E doc \in DivergenceDocs : DivergenceLoaded(doc)
    \/ DivergenceLoadFail
    \/ \E period \in Periods : PeriodTabClick(period)
    \/ \E metric \in Metrics : MetricSelect(metric)

SpecLoad == Init /\ [][NextLoad]_vars

\* the detail panel: selections from the table and the map, the close
\* button and its timer
NextPanel ==
    \/ \E d \in CorePool : LoadData(d)
    \/ LoadMarketData(TRUE)
    \/ FinishInit
    \/ MapLoaded
    \/ \E index \in 0..(ShortYears - 1) : YearSlider(index)
    \/ \E n \in Range(StateNames) : SelectStateFromTable(n)
    \/ \E f \in CorePaths : MapClick(f)
    \/ CloseDetailPanel
    \/ HideTimer

SpecPanel == Init /\ [][NextPanel]_vars

\* the stats banner and the interpretation of the detail panel, over the
\* classification datasets
NextBanner ==
    \/ \E d \in ClassifyPool : LoadData(d)
    \/ LoadMarketData(TRUE)
    \/ FinishInit
    \/ \E index \in 0..2 : YearSlider(index)
    \/ \E n \in BannerRows : SelectStateFromTable(n)

SpecBanner == Init /\ [][NextBanner]_vars

\* the whole application; the close button of the detail panel and its
\* timer run in SpecPanel
Next ==
    \/ \E d \in CorePool : LoadData(d)
    \/ LoadDataFail
    \/ \E ok \in BOOLEAN : LoadMarketData(ok)
    \/ FinishInit
    \/ MapLoaded
    \/ MapLoadFail
    \/ \E index \in 0..(ShortYears - 1) : YearSlider(index)
    \/ \E metric \in CoreMetrics : MetricSelect(metric)
    \/ \E sortKey \in CoreSortKeys : HeaderClick(sortKey)
    \/ \E tab \in Tabs : TabClick(tab)
    \/ \E searchTerm \in CoreSearchTerms : SearchInput(searchTerm)
    \/ \E n \in CoreRows : SelectStateFromTable(n)
    \/ \E f \in CorePaths : MapClick(f)

Spec == Init /\ [][Next]_vars

(***************************************************************************)
(* Properties of the Metric Classifier.                                    *)
(***************************************************************************)
\* the six buckets, worst (red) to best (green)
Palette == <<"#dc2626", "#f97316", "#eab308", "#84cc16", "#22c55e", "#059669">>

\* the five buckets of getCOLColor in app.js, worst to best
PaletteCol_app == <<"#dc2626", "#f97316", "#eab308", "#84cc16", "#059669">>

\* the five buckets of getIncomeColor in app.js, lowest to highest
PaletteIncome_app == <<"#fef2f2", "#fef9c3", "#d1fae5", "#a7f3d0", "#6ee7b7">>

bucketOf(colour, palette) ==
    IF \E k \in 1..Len(palette) : palette[k] = colour
    THEN CHOOSE k \in 1..Len(palette) : palette[k] = colour
    ELSE 0

\* the states painted from data: they have an entry for the current year
Painted == {n \in Keys(data) : HasYear(data, n, currentYear)}

valueOf(n) == data.ts[n][currentYear][currentMetric]

MapPainted == map = "paths" /\ ~data.isNull

\* v lies in the k-th of B equal-width bins over the values S, the last
\* bin closed at max
inBin(v, S, B, k) ==
    LET min == MathMin(S)
        range == MathMax(S) - MathMin(S)
    IN  \/ /\ B * min + (k - 1) * range <= B * v
           /\ B * v < B * min + k * range
        \/ k = B /\ v = MathMax(S)

\* C1: with the mli metric selected, the fill of every state is decided by
\* its own mli alone, by the fixed boundaries 0.90, 0.95, 1.00, 1.10, 1.20,
\* lower bound inclusive, in every dataset and year.
C1_MLIFixedBuckets ==
    (MapPainted /\ currentMetric = "mli") =>
        \A n \in Painted :
            LET mli == data.ts[n][currentYear].mli
                fill == mapFill[n]
            IN  /\ (mli < 90) <=> (fill = "#dc2626")
                /\ (90 <= mli /\ mli < 95) <=> (fill = "#f97316")
                /\ (95 <= mli /\ mli < 100) <=> (fill = "#eab308")
                /\ (100 <= mli /\ mli < 110) <=> (fill = "#84cc16")
                /\ (110 <= mli /\ mli < 120) <=> (fill = "#22c55e")
                /\ (120 <= mli) <=> (fill = "#059669")

\* a map painted by mli holding a state at 0.94 (deficit), one at 1.15
\* (good surplus) and one at 0.85 (deep deficit)
C1_Witness ==
    /\ MapPainted /\ currentMetric = "mli"
    /\ \E a, b, c \in Painted :
        /\ data.ts[a][currentYear].mli = 94 /\ mapFill[a] = "#f97316"
        /\ data.ts[b][currentYear].mli = 115 /\ mapFill[b] = "#22c55e"
        /\ data.ts[c][currentYear].mli = 85 /\ mapFill[c] = "#dc2626"

\* C2: for every metric and year, every painted state has exactly one of
\* the six buckets, and the bucket is monotonic in the value: not better for
\* a smaller value of mli, surplus and income, not worse for a smaller col.
C2_Monotonic ==
    MapPainted =>
        /\ \A n \in Painted : bucketOf(mapFill[n], Palette) \in 1..6
        /\ \A a, b \in Painted :
            valueOf(a) <= valueOf(b) =>
                IF currentMetric = "col"
                THEN bucketOf(mapFill[a], Palette) >= bucketOf(mapFill[b], Palette)
                ELSE bucketOf(mapFill[a], Palette) <= bucketOf(mapFill[b], Palette)

\* a map painted by col where a cheaper state has a strictly better bucket
C2_Witness ==
    /\ MapPainted /\ currentMetric = "col"
    /\ \E a, b \in Painted :
        /\ valueOf(a) < valueOf(b)
        /\ bucketOf(mapFill[a], Palette) > bucketOf(mapFill[b], Palette)
        /\ bucketOf(mapFill[b], Palette) >= 1

\* C3: for surplus and income with range > 0, a state has bucket k exactly
\* when its value lies in the k-th of the B equal-width bins over the values
\* of the states that have data for the year (max in the last bin); B = 6,
\* and B = 5 for getIncomeColor of app.js.  The minimum has the lowest and
\* the maximum the highest bucket.
C3_EqualWidthBins ==
    (MapPainted /\ currentMetric \in {"surplus", "income"}) =>
        LET S == {valueOf(n) : n \in Painted}
        IN  (S # {} /\ MathMax(S) > MathMin(S)) =>
              /\ \A n \in Painted : \A k \in 1..6 :
                    (mapFill[n] = Palette[k]) <=> inBin(valueOf(n), S, 6, k)
              /\ \A n \in Painted :
                    /\ valueOf(n) = MathMin(S) => mapFill[n] = Palette[1]
                    /\ valueOf(n) = MathMax(S) => mapFill[n] = Palette[6]
              /\ currentMetric = "income" =>
                    \A n \in Painted : \A k \in 1..5 :
                        (getIncomeColor_app(valueOf(n), data, currentYear)
                            = PaletteIncome_app[k])
                        <=> inBin(valueOf(n), S, 5, k)

\* a map painted by surplus with three distinct values, one of them exactly
\* on the boundary between the second and the third bin
C3_Witness ==
    /\ MapPainted /\ currentMetric = "surplus"
    /\ LET S == {valueOf(n) : n \in Painted}
       IN  /\ Cardinality(S) >= 3
           /\ \E n \in Painted :
                /\ 6 * valueOf(n) = 6 * MathMin(S) + 2 * (MathMax(S) - MathMin(S))
                /\ mapFill[n] = Palette[3]

\* the colour the ascending rule (getIncomeColor, getSurplusColor) gives to
\* the value reflected in the middle of the values S
mirrored(v, S) == MathMin(S) + MathMax(S) - v

\* C4 as claimed: getCOLColor returns the colour of the ascending rule with
\* the same number of bins, min and max at the reflected value min + max - v,
\* in the enhanced script (6 bins) and in app.js (5 bins).
C4_MirrorSameColour ==
    (MapPainted /\ currentMetric = "col") =>
        LET S == {valueOf(n) : n \in Painted}
        IN  \A n \in Painted :
              /\ mapFill[n] = incomeColorOver(mirrored(valueOf(n), S), S)
              /\ mapFill[n] = surplusColorOver(mirrored(valueOf(n), S), S)
              /\ getCOLColor_app(valueOf(n), data, currentYear)
                    = incomeColorOver_app(mirrored(valueOf(n), S), S)

\* C4 amended: getCOLColor gives v the bucket position, counted from the
\* worst of its own red-to-green palette, that the ascending rule with the
\* same number of bins, min and max gives to min + max - v counted from the
\* lowest; with 6 bins (enhanced script) that is the very colour
\* getIncomeColor and getSurplusColor return, with 5 bins (app.js) only the
\* position agrees, getIncomeColor having a palette of its own.  With
\* range > 0 the highest cost is red and the lowest green in both.
C4_MirrorBucket ==
    (MapPainted /\ currentMetric = "col") =>
        LET S == {valueOf(n) : n \in Painted}
        IN  \A n \in Painted :
              LET v == valueOf(n)
                  colApp == getCOLColor_app(v, data, currentYear)
              IN  /\ mapFill[n] = incomeColorOver(mirrored(v, S), S)
                  /\ mapFill[n] = surplusColorOver(mirrored(v, S), S)
                  /\ bucketOf(colApp, PaletteCol_app) \in 1..5
                  /\ bucketOf(colApp, PaletteCol_app)
                        = bucketOf(incomeColorOver_app(mirrored(v, S), S),
                                   PaletteIncome_app)
                  /\ (MathMax(S) > MathMin(S) /\ v = MathMax(S)) =>
                        (mapFill[n] = "#dc2626" /\ colApp = "#dc2626")
                  /\ (MathMax(S) > MathMin(S) /\ v = MathMin(S)) =>
                        (mapFill[n] = "#059669" /\ colApp = "#059669")

\* a map painted by col with three distinct costs, one of them exactly on
\* the boundary one bin below the maximum, which is not red
C4_Witness ==
    /\ MapPainted /\ currentMetric = "col"
    /\ LET S == {valueOf(n) : n \in Painted}
       IN  /\ Cardinality(S) >= 3
           /\ \E n \in Painted :
                /\ 6 * valueOf(n) = 6 * MathMax(S) - (MathMax(S) - MathMin(S))
                /\ mapFill[n] = "#f97316"
           /\ \E n \in Painted : valueOf(n) = MathMax(S) /\ mapFill[n] = "#dc2626"

\* values handed to the classifier functions when no state has data
ProbeValues == {-1, 0, 7, 50}

\* C5: when the values of a dynamic metric in the selected year are all
\* equal, or there are none, getSurplusColor, getIncomeColor and getCOLColor
\* (of both scripts) return a colour of their palette, the same one for
\* every state, and the map is painted without an error.
C5_DegenerateRange ==
    ~data.isNull =>
        \A field \in {"surplus", "income", "col"} :
            LET S == yearValues(data, currentYear, field)
                F(v) == CASE field = "surplus" -> getSurplusColor(v, data, currentYear)
                          [] field = "income"  -> getIncomeColor(v, data, currentYear)
                          [] field = "col"     -> getCOLColor(v, data, currentYear)
                G(v) == CASE field = "surplus" -> getSurplusColor(v, data, currentYear)
                          [] field = "income"  -> getIncomeColor_app(v, data, currentYear)
                          [] field = "col"     -> getCOLColor_app(v, data, currentYear)
                inputs == IF S = {} THEN ProbeValues ELSE S
            IN  (S = {} \/ MathMax(S) = MathMin(S)) =>
                  /\ \A v \in inputs :
                        /\ bucketOf(F(v), Palette) \in 1..6
                        /\ bucketOf(G(v), Palette) \in 1..6
                           \/ bucketOf(G(v), PaletteIncome_app) \in 1..5
                  /\ \A v, w \in inputs : F(v) = F(w) /\ G(v) = G(w)
                  /\ (MapPainted /\ currentMetric = field) =>
                        \A a, b \in Painted :
                            /\ mapFill[a] = mapFill[b]
                            /\ bucketOf(mapFill[a], Palette) \in 1..6

\* a map painted by income in a year where at least two states have data
\* and all have the same income: every one of them has the same colour
C5_Witness ==
    /\ MapPainted /\ currentMetric = "income"
    /\ Cardinality(Painted) >= 2
    /\ Cardinality({valueOf(n) : n \in Painted}) = 1
    /\ \A n \in Painted : mapFill[n] = "#059669"

\* a year for which no state has data, every probe value classified alike
C5_WitnessEmpty ==
    /\ ~data.isNull
    /\ yearValues(data, currentYear, "income") = {}
    /\ \A v \in ProbeValues : getIncomeColor(v, data, currentYear) = "#059669"

(***************************************************************************)
(* Properties of the Ranking Engine.                                       *)
(***************************************************************************)
\* getStateRanking completes for the selected year
RankingDefined == ~data.isNull /\ ~rankingThrows(data, currentYear)

mliOf(n, year) == data.ts[n][year].mli

\* the table shows the selected year: the handler that selected it rendered
\* the rows
TableCurrent == phase = "ready" /\ ~tableThrows(data, availableYears, currentYear)

PanelRanked == detailPanel.display = "block" /\ detailPanel.year # 0

\* C6: the ranks getStateRanking returns over the N state names of the
\* dataset, and the rank column of the 'all' table, are exactly 1..N, also
\* when states tie; a rank shown in the detail panel is one of them.
C6_RanksArePermutation ==
    /\ RankingDefined =>
        LET N == Len(data.order)
        IN  /\ {getStateRanking(n, data, currentYear) : n \in Keys(data)} = 1..N
            /\ \A a, b \in Keys(data) :
                  a # b => getStateRanking(a, data, currentYear)
                            # getStateRanking(b, data, currentYear)
    /\ (phase = "ready" /\ activeTab = "all") =>
        /\ Len(rankingsBody) = Len(data.order)
        /\ \A i \in 1..Len(rankingsBody) : rankingsBody[i].rank = i
        /\ {rankingsBody[i].row.name : i \in 1..Len(rankingsBody)} = Keys(data)
    /\ PanelRanked => detailPanel.mliRank \in 1..Len(data.order)

\* the panel shows rank 2 for a state that ties with another state on mli
\* in the year shown, which is still the selected year
C6_Witness ==
    /\ PanelRanked
    /\ detailPanel.year = currentYear
    /\ detailPanel.mliRank = 2
    /\ \E n \in Keys(data) :
        /\ n # detailPanel.rankedState
        /\ mliOf(n, currentYear) = mliOf(detailPanel.rankedState, currentYear)
        /\ getStateRanking(n, data, currentYear) = 1

\* C7: a state with a higher mli in the selected year has a smaller rank;
\* rank 1 is a state of the highest mli; for Alabama 1.20, Alaska 0.80,
\* Arizona 1.00 the ranks are 1, 3, 2.
C7_RankByMliDescending ==
    /\ RankingDefined =>
        /\ \A a, b \in Keys(data) :
              mliOf(a, currentYear) > mliOf(b, currentYear)
                  => getStateRanking(a, data, currentYear)
                        < getStateRanking(b, data, currentYear)
        /\ \A a \in Keys(data) :
              getStateRanking(a, data, currentYear) = 1
                  => \A b \in Keys(data) : mliOf(a, currentYear) >= mliOf(b, currentYear)
        /\ ( /\ Keys(data) = {"Alabama", "Alaska", "Arizona"}
             /\ mliOf("Alabama", currentYear) = 120
             /\ mliOf("Alaska", currentYear) = 80
             /\ mliOf("Arizona", currentYear) = 100 )
           => /\ getStateRanking("Alabama", data, currentYear) = 1
              /\ getStateRanking("Arizona", data, currentYear) = 2
              /\ getStateRanking("Alaska", data, currentYear) = 3
    /\ PanelRanked =>
        \A b \in Keys(data) :
            mliOf(b, detailPanel.year) > mliOf(detailPanel.rankedState, detailPanel.year)
                => detailPanel.mliRank > 1

\* the panel shows rank 3 for the state of the lowest mli, below two states
\* of distinct higher mli
C7_Witness ==
    /\ PanelRanked
    /\ detailPanel.year = currentYear
    /\ detailPanel.mliRank = 3
    /\ \E a, b \in Keys(data) :
        /\ mliOf(a, currentYear) > mliOf(b, currentYear)
        /\ mliOf(b, currentYear) > mliOf(detailPanel.rankedState, currentYear)

\* C8 as claimed: of two states with equal mli in the selected year the one
\* whose name is alphabetically smaller has the smaller rank and stands
\* first in the mli-descending table, whatever the order of the dataset.
C8_TieBreakByName ==
    /\ RankingDefined =>
        \A a, b \in Keys(data) :
            (mliOf(a, currentYear) = mliOf(b, currentYear) /\ localeCompare(a, b) < 0)
                => getStateRanking(a, data, currentYear)
                      < getStateRanking(b, data, currentYear)
    /\ (TableCurrent /\ currentSort = "mli" /\ sortDirection = "desc") =>
        \A i, j \in 1..Len(rankingsBody) :
            ( /\ rankingsBody[i].row.mli = rankingsBody[j].row.mli
              /\ localeCompare(rankingsBody[i].row.name, rankingsBody[j].row.name) < 0 )
                => i < j

\* C9 as claimed: looking up the rank of a name that is no key of the
\* dataset does not yield a number outside 1..N, in particular not 0 (a
\* NotFound failure would yield no number at all).
C9_UnknownNameNotFound ==
    RankingDefined =>
        getStateRanking(Territory, data, currentYear) \in 1..Len(data.order)

\* C10 as claimed: when the selected year has fewer than 5 earlier years,
\* the change5yr of every table row, and the change of every insights entry,
\* is mli(selected year) - mli(earliest year).
C10_FiveYearFallback ==
    /\ (TableCurrent /\ findIndex(availableYears, currentYear) < 5) =>
        \A i \in 1..Len(rankingsBody) :
            rankingsBody[i].row.change5yr
                = mliOf(rankingsBody[i].row.name, currentYear)
                    - mliOf(rankingsBody[i].row.name, At0(availableYears, 0))
    /\ (insights.rendered /\ Len(availableYears) <= 5) =>
        \A i \in 1..Len(insights.best) :
            LET last == At0(availableYears, Len(availableYears) - 1)
            IN  insights.best[i].change
                    = mliOf(insights.best[i].name, last)
                        - mliOf(insights.best[i].name, At0(availableYears, 0))

\* the part of C10 the code keeps: updateInsights falls back to the earliest
\* year
C10_InsightsFallback ==
    (insights.rendered /\ Len(availableYears) <= 5) =>
        \A i \in 1..Len(insights.best) :
            LET last == At0(availableYears, Len(availableYears) - 1)
            IN  insights.best[i].change
                    = mliOf(insights.best[i].name, last)
                        - mliOf(insights.best[i].name, At0(availableYears, 0))

(***************************************************************************)
(* Properties of the table: sorting, searching, tabs.                      *)
(***************************************************************************)
flipped(dir) == IF dir = "desc" THEN "asc" ELSE "desc"

\* the direction after two consecutive clicks on the header k
afterTwoClicks(k) ==
    LET one == toggleSort(currentSort, sortDirection, k)
    IN  toggleSort(one.currentSort, one.sortDirection, k).sortDirection

\* C11 as claimed: two consecutive clicks on the same header, whichever it
\* is, restore the direction held before them.
C11_TwoClicksRestore ==
    Interactive => \A k \in SortKeys : afterTwoClicks(k) = sortDirection

\* C11, amended: the sort state starts at (mli, desc); sortDirection is
\* always asc or desc; a click on the header that is currentSort flips the
\* direction and keeps the key; a click on another header selects it with
\* desc; nothing else changes the sort state; two consecutive clicks on the
\* header that is currentSort restore the direction, and two consecutive
\* clicks on another header end in asc.
C11_SortStateMachine ==
    /\ (currentSort = "mli" /\ sortDirection = "desc")
    /\ [](sortDirection \in {"asc", "desc"})
    /\ [](\A k \in SortKeys :
            afterTwoClicks(k) = IF k = currentSort THEN sortDirection ELSE "asc")
    /\ [][\A k \in SortKeys : HeaderClick(k) =>
            /\ currentSort' = k
            /\ sortDirection' = IF currentSort = k THEN flipped(sortDirection)
                                ELSE "desc"]_vars
    /\ [][<<currentSort, sortDirection>>' # <<currentSort, sortDirection>>
            => \E k \in SortKeys : HeaderClick(k)]_vars

\* a header other than the first one was clicked twice
C11_Witness ==
    /\ phase = "ready"
    /\ currentSort = "income"
    /\ sortDirection = "asc"

\* the rows updateRankingsTable builds for the current year, unsorted
currentRows == tableStatesData(data, availableYears, currentYear)

\* a comes no later than b in the ascending order of the key: lexicographic
\* for the name, numeric otherwise
keyLeq(a, b, key) ==
    IF key = "name" THEN localeCompare(a.name, b.name) <= 0
    ELSE a[key] <= b[key]

\* rows is in non-increasing (desc) or non-decreasing (asc) order of key
ordered(rows, key, dir) ==
    \A i, j \in 1..Len(rows) :
        i < j => IF dir = "desc" THEN keyLeq(rows[j], rows[i], key)
                 ELSE keyLeq(rows[i], rows[j], key)

\* C12 as claimed: for every sort key, sortStates leaves the rows in
\* non-increasing order of the key with 'desc' and in non-decreasing order
\* with 'asc', the name compared lexicographically and every other key
\* numerically; so are the rows of the table after a header click.
C12_SortOrder ==
    TableCurrent =>
        /\ \A key \in SortKeys : \A dir \in {"asc", "desc"} :
                ordered(sortStates(currentRows, key, dir), key, dir)
        /\ ordered([i \in 1..Len(rankingsBody) |-> rankingsBody[i].row],
                   currentSort, sortDirection)

\* the part of C12 the code keeps: the numeric keys
C12_NumericOrder ==
    TableCurrent =>
        \A key \in SortKeys \ {"name"} : \A dir \in {"asc", "desc"} :
            ordered(sortStates(currentRows, key, dir), key, dir)

\* for the name the directions are the other way round
C12_NameOrderInverted ==
    TableCurrent =>
        \A dir \in {"asc", "desc"} :
            ordered(sortStates(currentRows, "name", dir), "name", flipped(dir))

\* no two rows have the same value of the key
distinctKey(rows, key) ==
    \A i, j \in 1..Len(rows) : i # j => rows[i][key] # rows[j][key]

tableRows == [i \in 1..Len(rankingsBody) |-> rankingsBody[i].row]

\* C13: when the values of a sort key are pairwise distinct, sorting the
\* rows by it in the flipped direction, from the dataset order or from the
\* sorted result, gives exactly the reverse of sorting them in the first
\* direction.
C13_FlipReverses ==
    TableCurrent =>
        \A key \in SortKeys : \A dir \in {"asc", "desc"} :
            distinctKey(currentRows, key) =>
                LET first == sortStates(currentRows, key, dir)
                IN  /\ sortStates(currentRows, key, flipped(dir)) = reverse(first)
                    /\ sortStates(first, key, flipped(dir)) = reverse(first)

\* the header of a key with distinct values was clicked into 'asc', and the
\* table is the reverse of its 'desc' order and differs from it
C13_Witness ==
    /\ TableCurrent
    /\ currentSort = "change5yr"
    /\ sortDirection = "asc"
    /\ distinctKey(currentRows, "change5yr")
    /\ Len(tableRows) >= 3
    /\ tableRows = reverse(sortStates(currentRows, "change5yr", "desc"))
    /\ tableRows # sortStates(currentRows, "change5yr", "desc")

\* the same letter, whatever its case
sameLetter(a, b) ==
    \/ a = b
    \/ \E k \in 1..Len(UpperCase) : {a, b} = {UpperCase[k], LowerCase[k]}

\* the state name contains the term as a substring, case-insensitively
nameContains(name, term) ==
    LET text == Spelling[name]
    IN  \E off \in 0..(Len(text) - Len(term)) :
            \A i \in 1..Len(term) : sameLetter(text[off + i], term[i])

\* row i of the table is visible
visible(display, i) == display[i] = ""

\* C14: filterTable(t) leaves visible exactly the rows whose state name
\* contains t, compared case-insensitively, and hides the others; only the
\* name is matched; the rows of the table and their order stay as they are.
C14_FilterByName ==
    [][\A t \in SearchTerms : SearchInput(t) =>
        /\ rankingsBody' = rankingsBody
        /\ Len(rowDisplay') = Len(rankingsBody)
        /\ \A i \in 1..Len(rankingsBody) :
              /\ rowDisplay'[i] \in {"", "none"}
              /\ visible(rowDisplay', i)
                    <=> nameContains(rankingsBody[i].row.name, t)]_vars

\* upper-case letters were typed: the rows of Alabama and Alaska are
\* visible, another row is hidden
C14_Witness ==
    /\ searchBox = <<"A", "L", "A">>
    /\ Len(rowDisplay) = Len(rankingsBody)
    /\ \E i, j \in 1..Len(rankingsBody) :
          /\ rankingsBody[i].row.name = "Alabama" /\ visible(rowDisplay, i)
          /\ ~nameContains(rankingsBody[j].row.name, searchBox)
          /\ ~visible(rowDisplay, j)

\* C15 as claimed: whatever was typed, clicked or moved, the visible rows
\* of the table are exactly the rows of the current sorted sequence whose
\* name contains the text now in the search box, in sorted order.
C15_SearchComposesWithSort ==
    (Interactive /\ TableCurrent) =>
        /\ Len(rowDisplay) = Len(rankingsBody)
        /\ \A i \in 1..Len(rankingsBody) :
              visible(rowDisplay, i)
                <=> nameContains(rankingsBody[i].row.name, searchBox)

\* C16: filterTable with the empty string leaves every row visible, the
\* rows and their order unchanged; and applying filterTable(t) to the rows
\* it has just filtered changes nothing, for every term t.
C16_EmptyAndIdempotent ==
    (Interactive /\ Len(rowDisplay) = Len(rankingsBody)) =>
        /\ \A i \in 1..Len(rankingsBody) :
              visible(filterTable(rankingsBody, rowDisplay, <<>>), i)
        /\ searchBox = <<>> => \A i \in 1..Len(rowDisplay) : visible(rowDisplay, i)
        /\ \A t \in SearchTerms :
              LET once == filterTable(rankingsBody, rowDisplay, t)
              IN  filterTable(rankingsBody, once, t) = once

\* a term has hidden some rows and shown others, and filtering by it again
\* gives the same rows
C16_Witness ==
    /\ Interactive
    /\ searchBox = <<"o", "n">>
    /\ \E i, j \in 1..Len(rowDisplay) : visible(rowDisplay, i) /\ ~visible(rowDisplay, j)
    /\ filterTable(rankingsBody, rowDisplay, searchBox) = rowDisplay

\* the first n rows, and the last n rows reversed, of a sorted sequence
topN(rows, n) == [i \in 1..(IF n < Len(rows) THEN n ELSE Len(rows)) |-> rows[i]]

bottomN(rows, n) ==
    [i \in 1..(IF n < Len(rows) THEN n ELSE Len(rows)) |-> rows[Len(rows) + 1 - i]]

\* the rows of the table in the current sort, for the current year
sortedRows == sortStates(currentRows, currentSort, sortDirection)

\* the part of C17 the code keeps: a click on the tab 'top10' shows the
\* first 10 rows of the sorted sequence in sorted order, a click on
\* 'bottom10' the last 10 rows reversed, the last row of the sequence first
C17_TableViews ==
    [][\A tab \in Tabs :
        (TabClick(tab) /\ ~tableThrows(data, availableYears, currentYear)) =>
            [i \in 1..Len(rankingsBody') |-> rankingsBody'[i].row]
              = CASE tab = "top10"    -> topN(sortedRows, 10)
                  [] tab = "bottom10" -> bottomN(sortedRows, 10)
                  [] OTHER            -> sortedRows]_vars

\* C17 as claimed: the top-N view is the first N rows of the sorted
\* sequence, the bottom-N view the last N rows reversed, N = 10 in the
\* table; and the 'best' and 'worst' insight lists, the top and the bottom
\* of the sequence sorted by mli, have the same number of entries.
C17_TopAndBottomViews ==
    /\ C17_TableViews
    /\ [](insights.rendered => Len(insights.best) = Len(insights.worst))

(***************************************************************************)
(* Properties of the lifecycle: the dataset, the derived views, loading.   *)
(***************************************************************************)
\* C18: once loaded, the dataset is read-only: no handler and no update
\* function changes this.data (the key order of its states, its years, any
\* timeseries value) or availableYears.
C18_DatasetReadOnly ==
    [][phase # "constructed" => (data' = data /\ availableYears' = availableYears)]_vars

\* the slider was moved, a header and a tab were clicked, a term was typed
\* and a state was selected, and the dataset is the one that was loaded
C18_Witness ==
    /\ phase = "ready"
    /\ data \in CorePool
    /\ availableYears = data.years
    /\ currentYear # At0(availableYears, Len(availableYears) - 1)
    /\ currentSort = "col" /\ sortDirection = "asc"
    /\ activeTab = "bottom10"
    /\ searchBox # <<>>
    /\ selectedState # "null"
    /\ currentMetric = "income"

\* the slider moves to a year every state has an entry for
SliderTo(index) ==
    /\ YearSlider(index)
    /\ ~tableThrows(data, availableYears, At0(availableYears, index))

\* the part of C19 the code keeps: after a year-slider event the map
\* fills, the table rows, the banner counts and the legend are those of
\* the newly selected year
C19_ViewsOfSelectedYear ==
    [][\A index \in 0..(ShortYears - 1) : SliderTo(index) =>
        LET year == At0(availableYears, index)
        IN  /\ currentYear' = year
            /\ map = "paths" =>
                  mapFill' = [f \in Features(data) |->
                                fillOf(f, data, year, currentMetric)]
            /\ [i \in 1..Len(rankingsBody') |-> rankingsBody'[i].row]
                  = sortStates(tableStatesData(data, availableYears, year),
                               currentSort, sortDirection)
            /\ statsBanner' = updateStatsBanner(data, year)
            /\ legend' = [metric |-> currentMetric, year |-> year]]_vars

\* C19 as claimed: after every year-slider event each displayed derived
\* output, the insights lists included, is the one computed from the newly
\* selected year.
C19_RecomputedOnYearChange ==
    /\ C19_ViewsOfSelectedYear
    /\ [][\A index \in 0..(ShortYears - 1) : SliderTo(index) =>
            insights' = updateInsights(data, availableYears,
                                       At0(availableYears, index))]_vars

\* C20: when the fetch or the parse of mli_data.json fails, the content of
\* <main> is replaced by the error message, no listener is registered, no
\* map is created or requested, and no table, banner or insight is
\* rendered; when that of market_divergence_corrected.json fails on the
\* divergence page, the container is replaced by the error block, no chart
\* is created and no interactivity is set up.
C20_LoadFailure ==
    /\ (phase = "error" /\ data.isNull) =>
          /\ errorShown
          /\ ~listeners
          /\ map = "null" /\ ~mapPending /\ mapFill = <<>>
          /\ rankingsBody = <<>>
          /\ ~statsBanner.rendered
          /\ ~insights.rendered
          /\ legend = NoLegend
    /\ (divergence.phase = "error" /\ ~divergence.fetched) =>
          /\ divergence.container = "error"
          /\ divergence.charts = {}
          /\ ~divergence.banner /\ ~divergence.findings
          /\ ~divergence.listeners

\* both loads have failed
C20_Witness ==
    /\ phase = "error" /\ data.isNull /\ errorShown
    /\ divergence.phase = "error" /\ ~divergence.fetched
    /\ divergence.container = "error"

(***************************************************************************)
(* What the page shows once startup is over.                               *)
(***************************************************************************)
\* createSavingsTimeline: the chart is drawn only from market data
createSavingsTimeline(market) == market = "loaded"

\* populateSavingsDistribution: the bars are filled only from market data
populateSavingsDistribution(market) == market = "loaded"

\* init has returned and the geometry request has settled
StartupOver == phase \in {"ready", "error"} /\ ~mapPending

\* the views inside <main> that show something
RenderedViews ==
    IF errorShown THEN {}
    ELSE {v \in {"map", "table", "banner", "insights", "timeline", "distribution"} :
            \/ (v = "map" /\ map = "paths")
            \/ (v = "table" /\ rankingsBody # <<>>)
            \/ (v = "banner" /\ statsBanner.rendered)
            \/ (v = "insights" /\ insights.rendered)
            \/ (v = "timeline" /\ phase = "ready" /\ createSavingsTimeline(marketData))
            \/ (v = "distribution" /\ phase = "ready"
                                   /\ populateSavingsDistribution(marketData))}

AllViews == {"map", "table", "banner", "insights", "timeline", "distribution"}

\* C21: once startup is over, either the error message has replaced the
\* content and no view is rendered, or every load succeeded and every view
\* is rendered.
C21_AllOrNothing ==
    StartupOver =>
        \/ (errorShown /\ RenderedViews = {})
        \/ (~errorShown /\ marketData = "loaded" /\ map = "paths"
                        /\ RenderedViews = AllViews)

(***************************************************************************)
(* A state without an entry for the selected year.                         *)
(***************************************************************************)
\* the states that have an entry for the year
statesWith(year) == {n \in Keys(data) : HasYear(data, n, year)}

\* C22: a year-slider move to a year that some state lacks still renders
\* the table and the banner for all states that have the year: the rows
\* are those states and the banner counts add up to their number.
C22_DegradesPerRow ==
    [][\A index \in 0..(LongYears - 1) :
          YearSlider(index) =>
             /\ {rankingsBody'[i].row.name : i \in 1..Len(rankingsBody')}
                    = statesWith(currentYear')
             /\ statsBanner'.surplus + statsBanner'.breakEven + statsBanner'.deficit
                    = Cardinality(statesWith(currentYear'))]_vars

(***************************************************************************)
(* The rank column of the table.                                           *)
(***************************************************************************)
\* the rank updateRankingsTable of the earlier page script writes into the
\* row at index of displayData, length the number of states
displayedRank_app(filter, length, index) ==
    IF filter = "bottom10" THEN length - 9 + index ELSE index + 1

\* 1-based position of the state in the sorted sequence
positionOf(name, rows) == CHOOSE p \in 1..Len(rows) : rows[p].name = name

\* the part of C23 that holds: in the enhanced page script the rank shown
\* in a row after a tab click is the row's 1-based position in the sorted
\* sequence
C23_RankIsPosition ==
    [][\A tab \in Tabs :
        (TabClick(tab) /\ ~tableThrows(data, availableYears, currentYear)) =>
            \A i \in 1..Len(rankingsBody') :
                rankingsBody'[i].rank
                    = positionOf(rankingsBody'[i].row.name, sortedRows)]_vars

\* C23: in every tab view and for every number of states, the rank shown
\* in a row equals the row's 1-based position in the full sorted sequence,
\* in both page scripts; in 'bottom10' the first row shows N and the ranks
\* decrease by one per row.
C23_RankIsPositionBothScripts ==
    [][\A tab \in Tabs :
        (TabClick(tab) /\ ~tableThrows(data, availableYears, currentYear)) =>
            \A i \in 1..Len(rankingsBody') :
                LET position == positionOf(rankingsBody'[i].row.name, sortedRows)
                IN  /\ rankingsBody'[i].rank = position
                    /\ displayedRank_app(tab, Len(sortedRows), i - 1) = position
                    /\ tab = "bottom10" => position = Len(sortedRows) - (i - 1)]_vars

(***************************************************************************)
(* Properties of the detail panel.                                         *)
(***************************************************************************)
\* C24: a hide timer started by an earlier close never hides a panel that
\* was reopened before the timer fired: a state of the dataset is never
\* the selected state while the panel is hidden.
C24_ReopenedPanelStays ==
    (selectedState # "null" /\ selectedState \in Keys(data))
        => detailPanel.display = "block"

(***************************************************************************)
(* The map and the asynchronous load of its geometry.                      *)
(***************************************************************************)
\* the fills updateMap gives the paths for a year and a metric
fillsFor(year, metric) == [f \in Features(data) |-> fillOf(f, data, year, metric)]

latestYear == At0(availableYears, Len(availableYears) - 1)

C26_SelectedStateKnown ==
    /\ selectedState # "null" =>
          /\ selectedState \in Keys(data)
          /\ detailPanel.stateName = selectedState
    /\ selectedFeature # "none" => selectedFeature \in Keys(data)

(***************************************************************************)
(* The table and the active tab.                                           *)
(***************************************************************************)
\* C27: the rows displayed are those of the tab marked active: with 'top10'
\* active the first 10 rows of the current sorted sequence, with
\* 'bottom10' the last 10 reversed, also after a year change or a sort
\* click.
C27_RowsOfActiveTab ==
    TableCurrent =>
        [i \in 1..Len(rankingsBody) |-> rankingsBody[i].row]
            = CASE activeTab = "top10"    -> topN(sortedRows, 10)
                [] activeTab = "bottom10" -> bottomN(sortedRows, 10)
                [] OTHER                  -> sortedRows

(***************************************************************************)
(* The stats banner and the interpretation of an mli.                      *)
(***************************************************************************)
\* the banner categories in which updateStatsBanner counts the state n
bannerCategories(n, year) ==
    LET alone == updateStatsBanner([data EXCEPT !.order = <<n>>], year)
    IN  {c \in {"surplus", "breakeven", "deficit"} :
            \/ (c = "surplus" /\ alone.surplus = 1)
            \/ (c = "breakeven" /\ alone.breakEven = 1)
            \/ (c = "deficit" /\ alone.deficit = 1)}

\* the category named by the text of getMLIInterpretation
categoryOfText(text) ==
    CASE text = "% surplus"  -> "surplus"
      [] text = "% deficit"  -> "deficit"
      [] text = "Break even" -> "breakeven"
      [] OTHER               -> "none"

\* C28: when every state has an mli for the selected year, the three
\* banner counts partition the states: each state is counted in exactly
\* one of surplus, break-even and deficit, so the counts add up to the
\* number of states; and that category is the one getMLIInterpretation
\* names and the one the detail panel takes as interpretation class.
C28_BannerPartition ==
    /\ statsBanner.rendered =>
          statsBanner.surplus + statsBanner.breakEven + statsBanner.deficit
              = Cardinality(Keys(data))
    /\ TableCurrent =>
          /\ \A n \in Keys(data) :
                /\ Cardinality(bannerCategories(n, currentYear)) = 1
                /\ bannerCategories(n, currentYear)
                     = {categoryOfText(getMLIInterpretation(mliOf(n, currentYear)).text)}
                /\ bannerCategories(n, currentYear)
                     = {interpretationClass(mliOf(n, currentYear))}
          /\ statsBanner.surplus
               = Cardinality({n \in Keys(data) : "surplus" \in bannerCategories(n, currentYear)})
          /\ statsBanner.breakEven
               = Cardinality({n \in Keys(data) : "breakeven" \in bannerCategories(n, currentYear)})
          /\ statsBanner.deficit
               = Cardinality({n \in Keys(data) : "deficit" \in bannerCategories(n, currentYear)})
    /\ PanelRanked =>
          /\ bannerCategories(detailPanel.rankedState, detailPanel.year)
               = {detailPanel.interpClass}
          /\ categoryOfText(detailPanel.interpretation.text) = detailPanel.interpClass

\* the banner counts both end points of the break-even band, 0.95 and
\* 1.05, and the panel shows a state that sits on one of them
C28_Witness ==
    /\ TableCurrent /\ PanelRanked
    /\ detailPanel.year = currentYear
    /\ \E a, b \in Keys(data) :
          /\ mliOf(a, currentYear) = 95
          /\ mliOf(b, currentYear) = 105
          /\ detailPanel.rankedState = a
    /\ detailPanel.interpClass = "breakeven"
    /\ statsBanner.breakEven >= 2

(***************************************************************************)
(* The trend insight of the detail panel.                                  *)
(***************************************************************************)
\* the year the change of a selected year starts from: 5 positions
\* earlier when that exists, the earliest available year otherwise
startYear(year) ==
    LET index == findIndex(availableYears, year)
    IN  IF index - 5 >= 0 THEN At0(availableYears, index - 5)
        ELSE At0(availableYears, 0)

\* the first half of C29: the trend insight describes a change that ends
\* at the selected year
C29_TrendEndsAtSelectedYear ==
    detailPanel.trend.rendered =>
        detailPanel.trend.toYear = detailPanel.trend.year

\* C29: the trend insight reports mli(selected year) - mli(start), start
\* the year 5 positions earlier or else the earliest year; and its change
\* agrees with the change5yr of the same state and year in the table.
C29_TrendInsight ==
    detailPanel.trend.rendered =>
        LET trend == detailPanel.trend
        IN  /\ trend.toYear = trend.year
            /\ trend.fromYear = startYear(trend.year)
            /\ trend.change = mliOf(trend.stateName, trend.year)
                                - mliOf(trend.stateName, startYear(trend.year))
            /\ trend.change = tableChange5yr(trend.stateName, data,
                                             availableYears, trend.year)

(***************************************************************************)
(* Handlers and the load of the dataset.                                   *)
(***************************************************************************)
\* the dataset is loaded and the selected year is one of its years
DatasetLoaded == ~data.isNull /\ currentYear \in Range(availableYears)

\* a step of a listener registered by setupEventListeners, or of the click
\* listener of a map path
HandlerRuns ==
    \/ \E index \in 0..(ShortYears - 1) : YearSlider(index)
    \/ \E metric \in Metrics : MetricSelect(metric)
    \/ \E sortKey \in SortKeys : HeaderClick(sortKey)
    \/ \E tab \in Tabs : TabClick(tab)
    \/ \E searchTerm \in SearchTerms : SearchInput(searchTerm)
    \/ \E n \in Range(StateNames) : SelectStateFromTable(n)
    \/ \E f \in CorePaths : MapClick(f)

====
